---- MODULE Spec2Model ----
(***************************************************************************)
(* Model of puyo30: the truncated-polynomial algebra (win_prob/prob.py     *)
(* Expr), the memoized recursive solver prob(win, lose, goal) and the      *)
(* interactive command-line loop (cli.py Cli.run / Cli.prob).              *)
(***************************************************************************)
EXTENDS Integers, Sequences, FiniteSets, TLC

VARIABLES
    cache,      \* functools.cache table of prob: key -> Expr
    stack,      \* call stack of prob bodies in progress (last = innermost)
    ret,        \* outcome of the most recent outermost call of prob
    cli,        \* the frozen Cli object: [goal, fraction]
    win,        \* Cli.run local
    lose,       \* Cli.run local
    prev,       \* (win, lose) when the current input line was read
    out,        \* lines printed while processing the current input line
    cpc,        \* position of Cli.run: "off", "input", "calling", "handling",
                \* "stopped", "crashed"
    ma, mb,     \* operands of a direct Expr.__mul__ call
    mc          \* its result, once made

vars == <<cache, stack, ret, cli, win, lose, prev, out, cpc, ma, mb, mc>>
solverVars == <<cache, stack, ret>>
cliVars == <<cli, win, lose, prev, out, cpc>>
mulVars == <<ma, mb, mc>>

(* ------------------------------ bounds -------------------------------- *)
MaxGoal == 2        \* the largest goal called
MaxCoef == 1        \* Expr.__mul__ operands have coefficients k/2, |k| <= MaxCoef
MaxScore == 3       \* the running score of the loop is followed up to MaxScore

(* ------------------------- fractions.Fraction ------------------------- *)
Abs(n) == IF n < 0 THEN -n ELSE n

RECURSIVE Gcd(_, _)
Gcd(a, b) == IF b = 0 THEN a ELSE Gcd(b, a % b)

\* Fraction(n, d): lowest terms, positive denominator
Fraction(n, d) ==
    LET s == IF d < 0 THEN -1 ELSE 1
        g == Gcd(Abs(n), Abs(d))
    IN  [num |-> (s * n) \div g, den |-> (s * d) \div g]

FracAdd(x, y) == Fraction(x.num * y.den + y.num * x.den, x.den * y.den)
FracSub(x, y) == Fraction(x.num * y.den - y.num * x.den, x.den * y.den)
FracMul(x, y) == Fraction(x.num * y.num, x.den * y.den)
FracAbs(x) == [num |-> Abs(x.num), den |-> x.den]

(* ------------------------------- Expr --------------------------------- *)
Expr(c0, c1, c2, c3) == [zero |-> c0, one |-> c1, two |-> c2, three |-> c3]

ExprAdd(a, b) ==
    Expr(FracAdd(a.zero, b.zero), FracAdd(a.one, b.one),
         FracAdd(a.two, b.two), FracAdd(a.three, b.three))

ExprSub(a, b) ==
    Expr(FracSub(a.zero, b.zero), FracSub(a.one, b.one),
         FracSub(a.two, b.two), FracSub(a.three, b.three))

\* ExprMul with the degree-4 pair a1*b3 let into the degree-3 coefficient
ExprMulDegree4(a, b) ==
    Expr(FracMul(a.zero, b.zero),
         FracAdd(FracMul(a.zero, b.one), FracMul(a.one, b.zero)),
         FracAdd(FracAdd(FracMul(a.zero, b.two), FracMul(a.one, b.one)),
                 FracMul(a.two, b.zero)),
         FracAdd(FracAdd(FracAdd(FracAdd(FracMul(a.zero, b.three), FracMul(a.one, b.two)),
                                 FracMul(a.two, b.one)),
                         FracMul(a.three, b.zero)),
                 FracMul(a.one, b.three)))

ExprMul(a, b) ==
    Expr(FracMul(a.zero, b.zero),
         FracAdd(FracMul(a.zero, b.one), FracMul(a.one, b.zero)),
         FracAdd(FracAdd(FracMul(a.zero, b.two), FracMul(a.one, b.one)),
                 FracMul(a.two, b.zero)),
         FracAdd(FracAdd(FracAdd(FracMul(a.zero, b.three), FracMul(a.one, b.two)),
                         FracMul(a.two, b.one)),
                 FracMul(a.three, b.zero)))

p == Expr(Fraction(1, 2), Fraction(1, 1), Fraction(0, 1), Fraction(0, 1))
\* q with the sign of its linear coefficient lost
qPlus == Expr(Fraction(1, 2), Fraction(1, 1), Fraction(0, 1), Fraction(0, 1))
q == Expr(Fraction(1, 2), Fraction(-1, 1), Fraction(0, 1), Fraction(0, 1))

WinExpr == Expr(Fraction(1, 1), Fraction(0, 1), Fraction(0, 1), Fraction(0, 1))
LoseExpr == Expr(Fraction(0, 1), Fraction(0, 1), Fraction(0, 1), Fraction(0, 1))

(* ------------------------ prob, without the cache ---------------------- *)
OutOfRange(w, l, g) == w > g \/ l > g

Value(v) == [kind |-> "value", val |-> v]
Error == [kind |-> "error", val |-> LoseExpr]

\* The body of prob evaluated by plain recursion: Value(expr) or Error.
RECURSIVE prob(_, _, _)
prob(w, l, g) ==
    IF OutOfRange(w, l, g) THEN Error
    ELSE IF w = g THEN Value(WinExpr)
    ELSE IF l = g THEN Value(LoseExpr)
    ELSE LET a == prob(w + 1, l, g)
             b == prob(w, l + 1, g)
         IN  IF a.kind = "error" \/ b.kind = "error" THEN Error
             ELSE Value(ExprAdd(ExprMul(p, a.val), ExprMul(q, b.val)))

(* ------------------------ prob, with the cache ------------------------- *)
\* Key without the goal
KeyNoGoal(w, l, g) == <<w, l, 0>>

\* functools.cache keys a call by its positional arguments
Key(w, l, g) == <<w, l, g>>

Frame(w, l, g) == [win |-> w, lose |-> l, goal |-> g, pc |-> "body", left |-> LoseExpr]
FrameKey(f) == Key(f.win, f.lose, f.goal)
Top == stack[Len(stack)]
Rest == SubSeq(stack, 1, Len(stack) - 1)
NoCall == [kind |-> "none", key |-> <<0, 0, 0>>, val |-> LoseExpr]
Outcome(kind, k, v) == [kind |-> kind, key |-> k, val |-> v]

\* Resume with the factor p() forgotten
ResumeNoP(f, v) ==
    IF f.pc = "waitWin"
    THEN [f EXCEPT !.pc = "afterWin", !.left = v]
    ELSE [f EXCEPT !.pc = "afterLose", !.left = ExprAdd(f.left, ExprMul(q, v))]

\* A value v reaches the frame that is waiting for it.
Resume(f, v) ==
    IF f.pc = "waitWin"
    THEN [f EXCEPT !.pc = "afterWin", !.left = ExprMul(p, v)]
    ELSE [f EXCEPT !.pc = "afterLose", !.left = ExprAdd(f.left, ExprMul(q, v))]

\* The innermost body returns v: the wrapper stores it and hands it to the caller.
Return(v) ==
    /\ cache' = (FrameKey(Top) :> v) @@ cache
    /\ IF Len(stack) = 1
       THEN /\ stack' = <<>>
            /\ ret' = Outcome("value", FrameKey(Top), v)
       ELSE /\ stack' = [Rest EXCEPT ![Len(stack) - 1] = Resume(@, v)]
            /\ UNCHANGED ret

\* The innermost body raises ValueError: no frame catches it, nothing is stored.
Raise ==
    /\ stack' = <<>>
    /\ ret' = Outcome("error", FrameKey(stack[1]), LoseExpr)
    /\ UNCHANGED cache

\* Invoke without the cache lookup
InvokeNoCache(w, l, g) ==
    /\ stack = <<>>
    /\ stack' = <<Frame(w, l, g)>>
    /\ ret' = NoCall
    /\ UNCHANGED cache

\* The wrapper is entered from outside any body.
Invoke(w, l, g) ==
    /\ stack = <<>>
    /\ IF Key(w, l, g) \in DOMAIN cache
       THEN /\ ret' = Outcome("value", Key(w, l, g), cache[Key(w, l, g)])
            /\ UNCHANGED stack
       ELSE /\ stack' = <<Frame(w, l, g)>>
            /\ ret' = NoCall
    /\ UNCHANGED cache

\* The wrapper is entered from the innermost body, which then waits in state `wait`.
SubCall(w, l, g, wait) ==
    IF Key(w, l, g) \in DOMAIN cache
    THEN /\ stack' = [stack EXCEPT ![Len(stack)] =
                          Resume([@ EXCEPT !.pc = wait], cache[Key(w, l, g)])]
         /\ UNCHANGED <<cache, ret>>
    ELSE /\ stack' = Append([stack EXCEPT ![Len(stack)].pc = wait], Frame(w, l, g))
         /\ UNCHANGED <<cache, ret>>

\* Body with lose == goal tested before win == goal
BodyLoseFirst ==
    /\ stack # <<>>
    /\ Top.pc = "body"
    /\ IF OutOfRange(Top.win, Top.lose, Top.goal) THEN Raise
       ELSE IF Top.lose = Top.goal THEN Return(LoseExpr)
       ELSE IF Top.win = Top.goal THEN Return(WinExpr)
       ELSE SubCall(Top.win + 1, Top.lose, Top.goal, "waitWin")
    /\ UNCHANGED <<cliVars, mulVars>>

\* Body with the range check after the terminal cases
BodyRangeLast ==
    /\ stack # <<>>
    /\ Top.pc = "body"
    /\ IF Top.win = Top.goal THEN Return(WinExpr)
       ELSE IF Top.lose = Top.goal THEN Return(LoseExpr)
       ELSE IF OutOfRange(Top.win, Top.lose, Top.goal) THEN Raise
       ELSE SubCall(Top.win + 1, Top.lose, Top.goal, "waitWin")
    /\ UNCHANGED <<cliVars, mulVars>>

\* Body without the lose == goal case
BodyNoLoseCase ==
    /\ stack # <<>>
    /\ Top.pc = "body"
    /\ IF OutOfRange(Top.win, Top.lose, Top.goal) THEN Raise
       ELSE IF Top.win = Top.goal THEN Return(WinExpr)
       ELSE SubCall(Top.win + 1, Top.lose, Top.goal, "waitWin")
    /\ UNCHANGED <<cliVars, mulVars>>

\* prob lines 177-184 up to the first recursive call
Body ==
    /\ stack # <<>>
    /\ Top.pc = "body"
    /\ IF OutOfRange(Top.win, Top.lose, Top.goal) THEN Raise
       ELSE IF Top.win = Top.goal THEN Return(WinExpr)
       ELSE IF Top.lose = Top.goal THEN Return(LoseExpr)
       ELSE SubCall(Top.win + 1, Top.lose, Top.goal, "waitWin")
    /\ UNCHANGED <<cliVars, mulVars>>

\* prob line 184: the second recursive call
CallLose ==
    /\ stack # <<>>
    /\ Top.pc = "afterWin"
    /\ SubCall(Top.win, Top.lose + 1, Top.goal, "waitLose")
    /\ UNCHANGED <<cliVars, mulVars>>

\* prob line 184: the sum is returned
Finish ==
    /\ stack # <<>>
    /\ Top.pc = "afterLose"
    /\ Return(Top.left)
    /\ UNCHANGED <<cliVars, mulVars>>

(* --------------------------- direct callers ---------------------------- *)
\* goals called directly: the degenerate 0, the smallest 1, and MaxGoal
Goals == {0, 1, MaxGoal}
\* arguments of a direct call: every in-range value and one past the goal
Args(g) == 0 .. g + 1

Call ==
    /\ \E g \in Goals : \E w \in Args(g) : \E l \in Args(g) : Invoke(w, l, g)
    /\ UNCHANGED <<cliVars, mulVars>>

Coefs == { Fraction(k, 2) : k \in -MaxCoef .. MaxCoef }
Exprs == [zero : Coefs, one : Coefs, two : Coefs, three : Coefs]
NoResult == [done |-> FALSE, val |-> LoseExpr]

\* a * b for two Expr values
Multiply ==
    /\ ~mc.done
    /\ mc' = [done |-> TRUE, val |-> ExprMul(ma, mb)]
    /\ UNCHANGED <<ma, mb, solverVars, cliVars>>

(* ------------------------------ rendering ----------------------------- *)
sign(num) == IF num.num >= 0 THEN "+" ELSE "-"

\* Expr.__str__: the coefficients as exact fractions
ExprStr(e) ==
    <<e.zero, sign(e.one), FracAbs(e.one), sign(e.two), FracAbs(e.two),
      sign(e.three), FracAbs(e.three)>>

\* a double: 53 significant bits, least positive value 2^-1074, all values
\* below 2^1024
MantissaBits == 53
MinExponent == -1074
MaxExponent == 1024

RECURSIVE Pow2(_)
Pow2(n) == IF n = 0 THEN 1 ELSE 2 * Pow2(n - 1)
RECURSIVE BitLen(_)
BitLen(n) == IF n = 0 THEN 0 ELSE 1 + BitLen(n \div 2)
RECURSIVE IsPow2(_)
IsPow2(d) == d = 1 \/ (d % 2 = 0 /\ IsPow2(d \div 2))

\* a / b to the nearest integer, ties to even (a >= 0, b > 0)
RoundHalfEven(a, b) ==
    LET whole == a \div b
        r == a % b
    IN  IF 2 * r < b THEN whole
        ELSE IF 2 * r > b THEN whole + 1
        ELSE IF whole % 2 = 0 THEN whole ELSE whole + 1

\* the e with 2^e <= n / d < 2^(e+1) (n > 0, d > 0)
FloorLog2(n, d) ==
    LET c == BitLen(n) - BitLen(d)
        atLeast == IF c >= 0 THEN n >= d * Pow2(c) ELSE n * Pow2(-c) >= d
    IN  IF atLeast THEN c ELSE c - 1

\* exponent of the last kept bit of the double nearest n / d
FloatUlp(n, d) ==
    LET e == FloorLog2(n, d) - (MantissaBits - 1)
    IN  IF e > MinExponent THEN e ELSE MinExponent

\* n / d in units of that bit, rounded
FloatMantissa(n, d) ==
    LET u == FloatUlp(n, d)
    IN  IF u >= 0 THEN RoundHalfEven(n, d * Pow2(u))
        ELSE RoundHalfEven(n * Pow2(-u), d)

\* a dyadic fraction that a double holds as it is
Representable(x) ==
    /\ IsPow2(x.den)
    /\ BitLen(Abs(x.num)) <= MantissaBits
    /\ BitLen(x.den) - 1 <= -MinExponent
    /\ BitLen(Abs(x.num)) - (BitLen(x.den) - 1) <= MaxExponent

\* float(Fraction) raises OverflowError: the nearest double would be 2^1024 or more
FloatOverflows(x) ==
    /\ x.num # 0
    /\ FloorLog2(Abs(x.num), x.den) >= MaxExponent - 1
    /\ BitLen(FloatMantissa(Abs(x.num), x.den)) + FloatUlp(Abs(x.num), x.den)
         > MaxExponent

\* a double: its sign bit and its magnitude as the fraction it equals; the
\* sign bit tells -0.0 from 0.0
Double(neg, mag) == [neg |-> neg, mag |-> mag]

\* float(Fraction): the nearest double, ties to even. It keeps the sign of x
\* when the magnitude rounds to zero (at most 2^-1075): float of a negative
\* fraction that small is -0.0.
\* Every coefficient prob yields for a goal up to 26 is Representable; from
\* goal 27 the numerators need more than 53 bits and are rounded.
float(x) ==
    IF x.num = 0 \/ Representable(x) THEN Double(x.num < 0, FracAbs(x))
    ELSE LET n == Abs(x.num)
             u == FloatUlp(n, x.den)
             m == FloatMantissa(n, x.den)
         IN  Double(x.num < 0, IF u >= 0 THEN Fraction(m * Pow2(u), 1)
                               ELSE Fraction(m, Pow2(-u)))

\* abs(float): the sign bit is cleared
FloatAbs(d) == Double(FALSE, d.mag)

\* format(float, ".4f"): sign and ten-thousandths, ties to even; the sign is
\* the sign bit, so -0.0 and what rounds to zero from below give "-0.0000"
Fixed4(d) ==
    [neg |-> d.neg, units |-> RoundHalfEven(d.mag.num * 10000, d.mag.den)]

\* Expr.float
ExprFloat(e) ==
    [zero |-> float(e.zero), one |-> float(e.one),
     two |-> float(e.two), three |-> float(e.three)]
\* Expr.float raises OverflowError
ExprFloatOverflows(e) ==
    FloatOverflows(e.zero) \/ FloatOverflows(e.one)
      \/ FloatOverflows(e.two) \/ FloatOverflows(e.three)

\* sign in FloatExpr.__str__: num >= 0 holds for -0.0
FloatSign(d) == IF d.neg /\ d.mag.num # 0 THEN "-" ELSE "+"

\* FloatExpr.__str__
FloatExprStr(e) ==
    <<Fixed4(e.zero), FloatSign(e.one), Fixed4(FloatAbs(e.one)),
      FloatSign(e.two), Fixed4(FloatAbs(e.two)),
      FloatSign(e.three), Fixed4(FloatAbs(e.three))>>

(* ------------------------------ Cli.run ------------------------------- *)
ExactLine(w, l, e) == [form |-> "exact", win |-> w, lose |-> l, text |-> ExprStr(e)]
DecimalLine(w, l, e) ==
    [form |-> "decimal", win |-> w, lose |-> l, text |-> FloatExprStr(ExprFloat(e))]
InvalidLine == [form |-> "invalid", win |-> 0, lose |-> 0, text |-> <<>>]

\* Cli.prob after prob has returned e
CliProbOutput(w, l, e) ==
    (IF cli.fraction THEN <<ExactLine(w, l, e)>> ELSE <<>>) \o <<DecimalLine(w, l, e)>>

\* a whitespace-separated word of an input line: an integer literal or not
IntTok(n) == [isInt |-> TRUE, val |-> n]
JunkTok == [isInt |-> FALSE, val |-> 0]
Toks(g) == { IntTok(n) : n \in 0 .. g + 1 } \cup {JunkTok}
Lines(g) ==
    { [text |-> t, toks |-> <<>>] : t \in {"w", "l"} }
    \cup { [text |-> "other", toks |-> ts] :
             ts \in {<<>>} \cup { <<a>> : a \in Toks(g) }
                    \cup { <<a, b>> : a \in Toks(g), b \in Toks(g) }
                    \cup { <<IntTok(0), IntTok(0), c>> : c \in Toks(g) } }

\* wi, lo = map(int, line.split()) succeeds
ParseOk(toks) == Len(toks) = 2 /\ toks[1].isInt /\ toks[2].isInt

\* One input line is read; the score is updated and Cli.prob is entered, or
\* the unpacking raises ValueError and the handler is entered.
CliLine ==
    /\ cpc = "input"
    /\ \E line \in Lines(cli.goal) :
         /\ prev' = <<win, lose>>
         /\ IF line.text = "l"
            THEN /\ lose < MaxScore
                 /\ lose' = lose + 1 /\ win' = win
                 /\ Invoke(win, lose + 1, cli.goal)
                 /\ out' = <<>> /\ cpc' = "calling"
            ELSE IF line.text = "w"
            THEN /\ win < MaxScore
                 /\ win' = win + 1 /\ lose' = lose
                 /\ Invoke(win + 1, lose, cli.goal)
                 /\ out' = <<>> /\ cpc' = "calling"
            ELSE IF ParseOk(line.toks)
            THEN /\ win' = line.toks[1].val /\ lose' = line.toks[2].val
                 /\ Invoke(line.toks[1].val, line.toks[2].val, cli.goal)
                 /\ out' = <<>> /\ cpc' = "calling"
            ELSE /\ out' = <<>> /\ cpc' = "handling"
                 /\ UNCHANGED <<win, lose, solverVars>>
    /\ UNCHANGED <<cli, mulVars>>

\* what Cli.prob has printed when p.float() is reached
CliProbExact(w, l, e) == IF cli.fraction THEN <<ExactLine(w, l, e)>> ELSE <<>>

\* prob has returned or raised into Cli.prob. A ValueError enters the
\* handler of Cli.run; an OverflowError of p.float() is caught by nothing and
\* ends Cli.run.
CliPrint ==
    /\ cpc = "calling"
    /\ stack = <<>>
    /\ IF ret.kind = "error"
       THEN out' = <<>> /\ cpc' = "handling"
       ELSE IF ExprFloatOverflows(ret.val)
       THEN out' = CliProbExact(win, lose, ret.val) /\ cpc' = "crashed"
       ELSE out' = CliProbOutput(win, lose, ret.val) /\ cpc' = "input"
    /\ UNCHANGED <<cli, win, lose, prev, solverVars, mulVars>>

\* except ValueError: print("Invalid input."), and back to the prompt
CliInvalid ==
    /\ cpc = "handling"
    /\ out' = <<InvalidLine>>
    /\ cpc' = "input"
    /\ UNCHANGED <<cli, win, lose, prev, solverVars, mulVars>>

\* ValueError is in flight from prob to the handler: no interrupt is
\* recognised between the raise and the handler's first instruction
Unwinding == cpc = "calling" /\ stack = <<>> /\ ret.kind = "error"

\* Cli.run ends. EOFError at the prompt, or KeyboardInterrupt inside the try
\* block (at the prompt, inside prob, where the bodies in progress are
\* abandoned and what was stored stays, or inside Cli.prob before or between
\* its prints), leaves the loop by break: "stopped". KeyboardInterrupt
\* outside the try block is caught by nothing: "crashed". That is inside the
\* ValueError handler, before its print ("handling") or after it, and at the
\* loop's back edge after any line; both of the latter are cpc = "input".
\* The score is as it then is.
CliEnd ==
    /\ cpc \in {"input", "calling", "handling"}
    /\ ~Unwinding
    /\ stack' = <<>>
    /\ IF cpc = "calling" /\ stack = <<>>
       THEN out' \in {<<>>, CliProbExact(win, lose, ret.val)}
       ELSE out' = out
    /\ cpc' \in CASE cpc = "input" -> {"stopped", "crashed"}
                  [] cpc = "calling" -> {"stopped"}
                  [] cpc = "handling" -> {"crashed"}
    /\ UNCHANGED <<cli, win, lose, prev, cache, ret, mulVars>>

(* --------------------------- specifications --------------------------- *)
InitSolver == cache = <<>> /\ stack = <<>> /\ ret = NoCall
InitCliOff ==
    /\ cli = [goal |-> 30, fraction |-> FALSE]
    /\ win = 0 /\ lose = 0 /\ prev = <<0, 0>> /\ out = <<>> /\ cpc = "off"
InitMulOff == ma = LoseExpr /\ mb = LoseExpr /\ mc = NoResult

\* prob called directly, in any order, on one cache
Init == InitSolver /\ InitCliOff /\ InitMulOff
Next == Call \/ Body \/ CallLose \/ Finish
Spec == Init /\ [][Next]_vars

\* the interactive loop
InitCli ==
    /\ InitSolver /\ InitMulOff
    /\ cli \in [goal : 1 .. MaxGoal, fraction : BOOLEAN]
    /\ win = 0 /\ lose = 0 /\ prev = <<0, 0>> /\ out = <<>> /\ cpc = "input"
NextCli == CliLine \/ CliPrint \/ CliInvalid \/ CliEnd \/ Body \/ CallLose \/ Finish
SpecCli == InitCli /\ [][NextCli]_vars

\* Expr.__mul__ on arbitrary operands
InitMul ==
    /\ InitSolver /\ InitCliOff
    /\ ma \in Exprs /\ mb \in Exprs /\ mc = NoResult
NextMul == Multiply
SpecMul == InitMul /\ [][NextMul]_vars

(* ------------------------------- claims -------------------------------- *)
Rat(n, d) == [num |-> n, den |-> d]
Poly(c0, c1, c2, c3) == [zero |-> c0, one |-> c1, two |-> c2, three |-> c3]
Interior(k) == 0 <= k[1] /\ k[1] < k[3] /\ 0 <= k[2] /\ k[2] < k[3]
InRange(k) == 0 <= k[1] /\ k[1] <= k[3] /\ 0 <= k[2] /\ k[2] <= k[3]
\* every value a call has returned: the table's entries and the last outcome
Solved(k) == k \in DOMAIN cache
LastAgrees == ret.kind = "value" => (Solved(ret.key) /\ cache[ret.key] = ret.val)

\* C1: every value prob has returned for a state with win < goal and
\* lose < goal equals P * prob(win+1, lose, goal) + Q * prob(win, lose+1, goal)
\* coefficient by coefficient, with P = (1/2, 1, 0, 0) and Q = (1/2, -1, 0, 0).
C1_Recurrence ==
    LET P == Poly(Rat(1, 2), Rat(1, 1), Rat(0, 1), Rat(0, 1))
        Q == Poly(Rat(1, 2), Rat(-1, 1), Rat(0, 1), Rat(0, 1))
    IN  /\ LastAgrees
        /\ \A k \in DOMAIN cache :
             Interior(k) =>
               /\ Solved(<<k[1] + 1, k[2], k[3]>>)
               /\ Solved(<<k[1], k[2] + 1, k[3]>>)
               /\ cache[k] = ExprAdd(ExprMul(P, cache[<<k[1] + 1, k[2], k[3]>>]),
                                     ExprMul(Q, cache[<<k[1], k[2] + 1, k[3]>>]))

\* prob(0, 0, MaxGoal) has been computed through the recursion and returned
C1_Witness ==
    /\ MaxGoal >= 2
    /\ ret.kind = "value" /\ ret.key = <<0, 0, MaxGoal>>
    /\ ret.val.three # Rat(0, 1)

\* C2: a call with win = goal and lose <= goal returns (1,0,0,0), also when
\* lose = goal; a call with lose = goal and win < goal returns (0,0,0,0).
C2_Terminal ==
    LET one == Poly(Rat(1, 1), Rat(0, 1), Rat(0, 1), Rat(0, 1))
        zero == Poly(Rat(0, 1), Rat(0, 1), Rat(0, 1), Rat(0, 1))
        Right(k, v) == /\ (k[1] = k[3] => v = one)
                       /\ (k[2] = k[3] /\ k[1] # k[3] => v = zero)
    IN  /\ \A k \in DOMAIN cache : Right(k, cache[k])
        /\ (ret.kind # "none" /\ InRange(ret.key)
              /\ (ret.key[1] = ret.key[3] \/ ret.key[2] = ret.key[3]))
             => (ret.kind = "value" /\ Right(ret.key, ret.val))

\* prob(goal, goal, goal) has returned for the largest goal, and so has a loss
C2_Witness ==
    /\ ret.kind = "value" /\ ret.key = <<MaxGoal, MaxGoal, MaxGoal>>
    /\ Solved(<<0, MaxGoal, MaxGoal>>)
    /\ Solved(<<MaxGoal, 0, MaxGoal>>)

\* C3: a call raises exactly when win > goal or lose > goal, also when the
\* other argument equals goal; every call with 0 <= win, lose <= goal returns
\* an expression, and no raising call leaves an entry in the table.
C3_OutOfRange ==
    /\ ret.kind # "none" =>
         (ret.kind = "error" <=> (ret.key[1] > ret.key[3] \/ ret.key[2] > ret.key[3]))
    /\ (ret.kind # "none" /\ InRange(ret.key)) => ret.kind = "value"
    /\ \A k \in DOMAIN cache : InRange(k)

\* prob(goal, goal + 1, goal) has raised with in-range entries already stored
C3_Witness ==
    /\ ret.kind = "error"
    /\ ret.key = <<MaxGoal, MaxGoal + 1, MaxGoal>>
    /\ Solved(<<0, 0, MaxGoal>>)

\* the full product of two cubics: coefficient k sums a_i * b_j over i + j = k
CoefOf(e, i) ==
    IF i = 0 THEN e.zero ELSE IF i = 1 THEN e.one
    ELSE IF i = 2 THEN e.two ELSE IF i = 3 THEN e.three ELSE Rat(0, 1)
RECURSIVE ConvFrom(_, _, _, _)
ConvFrom(a, b, k, i) ==
    IF i > k THEN Rat(0, 1)
    ELSE FracAdd(FracMul(CoefOf(a, i), CoefOf(b, k - i)), ConvFrom(a, b, k, i + 1))
FullProduct(a, b, k) == ConvFrom(a, b, k, 0)

\* C4: a * b holds exactly the degree 0..3 coefficients of the full degree-6
\* product; no pair of terms of combined degree above 3 contributes.
C4_Truncation ==
    mc.done =>
      mc.val = Poly(FullProduct(ma, mb, 0), FullProduct(ma, mb, 1),
                    FullProduct(ma, mb, 2), FullProduct(ma, mb, 3))

\* a product was taken whose degree 4, 5 and 6 terms are all nonzero
C4_Witness ==
    /\ mc.done
    /\ FullProduct(ma, mb, 4) # Rat(0, 1)
    /\ FullProduct(ma, mb, 5) # Rat(0, 1)
    /\ FullProduct(ma, mb, 6) # Rat(0, 1)
    /\ ma.one # Rat(0, 1) /\ mb.three # Rat(0, 1)

RECURSIVE Binomial(_, _)
Binomial(n, k) ==
    IF k < 0 \/ k > n THEN 0
    ELSE IF k = 0 \/ k = n THEN 1
    ELSE Binomial(n - 1, k - 1) + Binomial(n - 1, k)
RECURSIVE BinomialSum(_, _, _)
BinomialSum(n, from, to) ==
    IF from > to THEN 0 ELSE Binomial(n, from) + BinomialSum(n, from + 1, to)
\* the chance of a points before the opponent's b points with a fair coin
FairRace(a, b) == Fraction(BinomialSum(a + b - 1, a, a + b - 1), Pow2(a + b - 1))

\* C5: for win < goal and lose < goal the degree-0 coefficient of the value
\* returned is the fair-coin race probability of goal-win points before
\* goal-lose points; for prob(0, 0, 2) it is 1/2.
C5_FairCoin ==
    /\ LastAgrees
    /\ \A k \in DOMAIN cache :
         Interior(k) => cache[k].zero = FairRace(k[3] - k[1], k[3] - k[2])
    /\ Solved(<<0, 0, 2>>) => cache[<<0, 0, 2>>].zero = Rat(1, 2)

\* an uneven race at the largest goal has been solved
C5_Witness ==
    /\ MaxGoal >= 2
    /\ ret.kind = "value" /\ ret.key = <<1, 0, MaxGoal>>
    /\ ret.val.zero # Rat(1, 2)

\* C6: whatever calls came before on the shared table, a call returns the
\* value the uncached recursion gives for its arguments and raises exactly
\* when the uncached recursion raises; so equal arguments give equal results.
C6_Transparent ==
    /\ \A k \in DOMAIN cache : prob(k[1], k[2], k[3]) = Value(cache[k])
    /\ ret.kind = "value" =>
         prob(ret.key[1], ret.key[2], ret.key[3]) = Value(ret.val)
    /\ ret.kind = "error" =>
         prob(ret.key[1], ret.key[2], ret.key[3]).kind = "error"

\* a call is answered while the table holds entries of another goal with the
\* same win and lose
C6_Witness ==
    /\ ret.kind = "value" /\ ret.key = <<0, 0, 1>>
    /\ Solved(<<0, 0, MaxGoal>>) /\ MaxGoal > 1
    /\ Solved(<<0, 0, 0>>)
    /\ cache[<<0, 0, MaxGoal>>] # ret.val

\* C7: for a line that was processed without error the flag picks one form:
\* the exact line alone with --fraction, the decimal line alone without it.
C7_OneForm ==
    (cpc = "input" /\ out # <<>> /\ out[1].form # "invalid") =>
      /\ Len(out) = 1
      /\ out[1].form = (IF cli.fraction THEN "exact" ELSE "decimal")

\* C8 distance left to both goals
Measure(f) == (f.goal - f.win) + (f.goal - f.lose)
\* every call made from a body whose arguments are in range is in range too
\* and strictly nearer the goals than its caller
Descends ==
    \A i \in 2 .. Len(stack) :
      InRange(FrameKey(stack[1])) =>
        /\ stack[i].goal = stack[i - 1].goal
        /\ InRange(FrameKey(stack[i]))
        /\ Measure(stack[i]) < Measure(stack[i - 1])
\* the exception is raised only by the outermost call
RaisesOutermost == ret.kind = "error" => ~InRange(ret.key)

\* a call in progress can always take its next step: the innermost body is
\* never the one that waits
CanStep == stack # <<>> => Top.pc \in {"body", "afterWin", "afterLose"}
\* work left for the call in progress: three steps for every state of its goal
\* not yet stored, less the steps the bodies on the stack have taken
StepsTaken(f) == IF f.pc = "body" THEN 0
                 ELSE IF f.pc \in {"waitWin", "afterWin"} THEN 1 ELSE 2
RECURSIVE StackSteps(_)
StackSteps(i) == IF i = 0 THEN 0 ELSE StepsTaken(stack[i]) + StackSteps(i - 1)
Unsolved(g) == { k \in (0 .. g) \X (0 .. g) : <<k[1], k[2], g>> \notin DOMAIN cache }
WorkLeft ==
    IF stack = <<>> THEN 0
    ELSE 3 * Cardinality(Unsolved(stack[1].goal)) - StackSteps(Len(stack))

\* C8: each recursive call of a call with 0 <= win, lose <= goal has a
\* strictly smaller (goal-win)+(goal-lose), stays within 0..goal on both
\* coordinates and never raises; a call in progress can always step, and each
\* of its steps strictly lowers a count that is never negative, so it ends.
C8_WellFounded ==
    /\ [](Descends /\ RaisesOutermost /\ CanStep /\ WorkLeft >= 0)
    /\ [][(stack # <<>> /\ stack' # <<>>) => WorkLeft' < WorkLeft]_vars

\* the recursion from (0, 0, MaxGoal) is at its deepest
C8_Witness ==
    /\ MaxGoal >= 2
    /\ Len(stack) = 2 * MaxGoal
    /\ FrameKey(stack[1]) = <<0, 0, MaxGoal>>

\* a body starts in this step
BodyStarts == Len(stack') > Len(stack)
Started == FrameKey(stack'[Len(stack')])

\* C9 as stated: after a call with some arguments has ended, a call with the
\* same arguments does not execute the body again.
C9_OncePerKey ==
    [][(BodyStarts /\ stack = <<>> /\ ret.kind # "none") => Started # ret.key]_vars

\* C9, amended: a call that returns a value is stored under (win, lose, goal);
\* entries are never removed or overwritten; a body never starts for a stored
\* key or for a key whose body is still running, and then the stored value is
\* what the call returns; a call that raises stores nothing.
C9_CacheGrows ==
    /\ [](LastAgrees /\ \A k \in DOMAIN cache : InRange(k))
    /\ [][\A k \in DOMAIN cache : k \in DOMAIN cache' /\ cache'[k] = cache[k]]_vars
    /\ [][BodyStarts =>
            /\ Started \notin DOMAIN cache
            /\ \A i \in 1 .. Len(stack) : FrameKey(stack[i]) # Started]_vars
    /\ [][(stack = <<>> /\ stack' = <<>> /\ ret' # ret) =>
            /\ ret'.kind = "value"
            /\ ret'.key \in DOMAIN cache
            /\ ret'.val = cache[ret'.key]
            /\ cache' = cache]_vars
    /\ [][(ret'.kind = "error" /\ ret' # ret) => cache' = cache]_vars

\* a call was answered from the table, which already holds a whole recursion
C9_Witness ==
    /\ stack = <<>>
    /\ ret.kind = "value" /\ ret.key = <<0, 1, MaxGoal>>
    /\ Solved(<<0, 0, MaxGoal>>)

\* C10: a line answered with "Invalid input." leaves win and lose as they
\* were when the line was read.
C10_ScoreKept ==
    (cpc = "input" /\ out = <<InvalidLine>>) => <<win, lose>> = prev
====
